---- MODULE Spec2Model ----
(***************************************************************************)
(* Lip-sync video synthesis pipeline of server/virtual/api.py: the viseme  *)
(* mapper, the audio resolver, the two-stage encoder pipeline and the      *)
(* temporary-directory lifecycle, one process per HTTP request.            *)
(*                                                                         *)
(* Characters are strings; an ideograph is written by its code point       *)
(* ("U+4F60").  Times are in tenths of a second (char_interval 0.5 = 5).   *)
(***************************************************************************)
EXTENDS Integers, Sequences, FiniteSets, TLC

\* ---------------------------------------------------------------- bounds
MaxAudioSec == 3   \* probed audio durations are 1..MaxAudioSec seconds
MaxTextLen == 3    \* texts given to the viseme mapper have 0..MaxTextLen characters
MaxStreams == 2    \* the prober reports 0..MaxStreams streams
MaxUrlLen == 4     \* audio URLs have 0..MaxUrlLen characters after "http://"

\* Two requests: the claims relate at most two requests to each other.
Req == {1, 2}

Min(a, b) == IF a <= b THEN a ELSE b
Max(a, b) == IF a >= b THEN a ELSE b

\* ------------------------------------------------- viseme mapping table
VIS_MAP ==
    ("b" :> "00") @@ ("p" :> "00") @@ ("m" :> "00") @@ ("f" :> "01") @@
    ("s" :> "02") @@ ("x" :> "02") @@ ("c" :> "02") @@ ("z" :> "02") @@
    ("sh" :> "02") @@ ("ch" :> "02") @@ ("q" :> "02") @@ ("zh" :> "02") @@
    ("d" :> "03") @@ ("t" :> "03") @@ ("n" :> "03") @@ ("l" :> "03") @@
    ("U+025C" :> "03") @@ ("U+0259" :> "03") @@
    ("a" :> "04") @@ ("U+0251" :> "04") @@ ("U+00E6" :> "04") @@
    ("A" :> "05") @@
    ("i" :> "06") @@ ("j" :> "06") @@ ("y" :> "06") @@
    ("U+0254" :> "07") @@ ("o" :> "07") @@
    ("u" :> "08") @@ ("U+028A" :> "08") @@
    ("U+00FC" :> "09") @@ ("v" :> "09") @@
    ("B" :> "00") @@ ("P" :> "00") @@ ("M" :> "00") @@
    ("F" :> "01") @@ ("V" :> "01") @@
    ("S" :> "02") @@ ("Z" :> "02") @@ ("C" :> "02") @@
    ("U+0283" :> "02") @@ ("tU+0283" :> "02") @@ ("dU+0292" :> "02") @@
    ("D" :> "03") @@ ("T" :> "03") @@ ("N" :> "03") @@ ("L" :> "03") @@
    ("R" :> "03") @@
    ("E" :> "06") @@ ("I" :> "06") @@ ("O" :> "07") @@ ("U" :> "08")

VisemeIDs == {"00", "01", "02", "03", "04", "05", "06", "07", "08", "09"}

\* Faulty variant: an unmapped unit is passed through
phone2vis_m(p) == IF p \in DOMAIN VIS_MAP THEN VIS_MAP[p] ELSE p

phone2vis(p) == IF p \in DOMAIN VIS_MAP THEN VIS_MAP[p] ELSE "03"

\* --------------------------------------------------------- characters
LowerLetters == <<"a","b","c","d","e","f","g","h","i","j","k","l","m",
                  "n","o","p","q","r","s","t","u","v","w","x","y","z">>
UpperLetters == <<"A","B","C","D","E","F","G","H","I","J","K","L","M",
                  "N","O","P","Q","R","S","T","U","V","W","X","Y","Z">>

Range(s) == {s[i] : i \in DOMAIN s}

\* [a-zA-Z]
IsLatin(c) == c \in Range(LowerLetters) \cup Range(UpperLetters)

\* str.upper() on one ASCII letter
upper(c) ==
    IF c \in Range(LowerLetters)
    THEN UpperLetters[CHOOSE i \in DOMAIN LowerLetters : LowerLetters[i] = c]
    ELSE c

\* Plain-tone romanisation of the ideographs the model uses
\* (U+4F60 ni, U+597D hao, U+662F shi, U+4E2D zhong, U+5403 chi, U+5B89 an).
PINYIN ==
    ("U+4F60" :> <<"n","i">>) @@ ("U+597D" :> <<"h","a","o">>) @@
    ("U+662F" :> <<"s","h","i">>) @@ ("U+4E2D" :> <<"z","h","o","n","g">>) @@
    ("U+5403" :> <<"c","h","i">>) @@ ("U+5B89" :> <<"a","n">>)

\* [\u4e00-\u9fa5]
IsCJK(c) == c \in DOMAIN PINYIN

\* Length of the longest prefix of s without an ideograph.
RECURSIVE OtherLen(_)
OtherLen(s) ==
    IF s = <<>> \/ IsCJK(Head(s)) THEN 0 ELSE 1 + OtherLen(Tail(s))

\* Faulty variant: Style.FINALS, each syllable without its first letter
lazy_pinyin_m(token) ==
    [i \in DOMAIN token |->
        IF IsCJK(token[i]) THEN Tail(PINYIN[token[i]]) ELSE <<token[i]>>]

\* lazy_pinyin(token, Style.NORMAL): one syllable for each ideograph; a
\* stretch of other characters comes back unchanged as one item.
RECURSIVE lazy_pinyin(_)
lazy_pinyin(token) ==
    IF token = <<>> THEN <<>>
    ELSE IF IsCJK(Head(token))
         THEN <<PINYIN[Head(token)]>> \o lazy_pinyin(Tail(token))
         ELSE LET n == OtherLen(token)
              IN  <<SubSeq(token, 1, n)>> \o
                  lazy_pinyin(SubSeq(token, n + 1, Len(token)))

\* Faulty variant: one run for letters and ideographs together
RECURSIVE RunLen_m(_, _)
RunLen_m(s, cjk) ==
    IF s = <<>> THEN 0
    ELSE IF IsCJK(Head(s)) \/ IsLatin(Head(s))
         THEN 1 + RunLen_m(Tail(s), cjk)
         ELSE 0

\* Length of the longest prefix of s whose characters satisfy the class of
\* its first character (a greedy "+" of the regular expression).
RECURSIVE RunLen(_, _)
RunLen(s, cjk) ==
    IF s = <<>> THEN 0
    ELSE IF (cjk /\ IsCJK(Head(s))) \/ (~cjk /\ IsLatin(Head(s)))
         THEN 1 + RunLen(Tail(s), cjk)
         ELSE 0

\* re.findall(r'([\u4e00-\u9fa5]+|[a-zA-Z]+)', text)
RECURSIVE split_zh_en(_)
split_zh_en(text) ==
    IF text = <<>> THEN <<>>
    ELSE IF IsCJK(Head(text)) \/ IsLatin(Head(text))
         THEN LET n == RunLen(text, IsCJK(Head(text)))
              IN  <<SubSeq(text, 1, n)>> \o
                  split_zh_en(SubSeq(text, n + 1, Len(text)))
         ELSE split_zh_en(Tail(text))

\* Faulty variant: one viseme for each letter of a Latin run
tok2vis_m(token) ==
    IF \E i \in DOMAIN token : IsCJK(token[i])
    THEN LET py == lazy_pinyin(token)
         IN  [i \in DOMAIN py |-> phone2vis(py[i][1])]
    ELSE [i \in DOMAIN token |-> phone2vis(upper(token[i]))]

tok2vis(token) ==
    IF \E i \in DOMAIN token : IsCJK(token[i])
    THEN LET py == lazy_pinyin(token)
         IN  [i \in DOMAIN py |-> phone2vis(py[i][1])]
    ELSE <<phone2vis(upper(token[1]))>>

RECURSIVE Chain(_)
Chain(ss) == IF ss = <<>> THEN <<>> ELSE Head(ss) \o Chain(Tail(ss))

build_vis_seq(sentence) ==
    LET tokens == split_zh_en(sentence)
    IN  Chain([i \in DOMAIN tokens |-> tok2vis(tokens[i])])

\* ------------------------------------------------------ request inputs
\* "", " ", "1", "hi", "bye <U+4F60><U+597D>"
ReqTexts == { <<>>, <<" ">>, <<"1">>, <<"h","i">>,
              <<"b","y","e"," ","U+4F60","U+597D">> }
Genders == {0, 1, 2}
CharIntervals == {0, 5, 20, 25}           \* JSON numbers 0, 0.5, 2, 2.5

LocalAudio == "voice/voice.mp3"          \* a file that exists
MissingAudio == "voice/none.mp3"         \* no such path
UrlAudio == "http://host/a.mp3"
DirAudio == "uploads"                    \* a directory that exists
HttpFileAudio == "http://host/b.mp3"     \* a file http:/host/b.mp3 that exists
HttpDirAudio == "http://host"            \* a directory http:/host that exists
AudioFiles == {LocalAudio, MissingAudio, UrlAudio, DirAudio,
               HttpFileAudio, HttpDirAudio}
LocalDirs == {DirAudio, HttpDirAudio}
HttpSources == {UrlAudio, HttpFileAudio, HttpDirAudio}

\* The characters of an audio URL; DefaultUrl is UrlAudio, shortened.
HttpPrefix == <<"h","t","t","p",":","/","/">>
DefaultUrl == HttpPrefix \o <<"a","/","a",".","a">>
UrlChars == {"a", ".", "/", "?"}
Urls == {HttpPrefix \o rest :
            rest \in UNION {[1..n -> UrlChars] : n \in 0..MaxUrlLen}}

AudioDurations == {10 * k : k \in 1..MaxAudioSec}

\* Contents of the two viseme folders under mouse-sort/.
\* probe: how ffprobe fares on the images of the folder: "ok", "nonzero"
\* (exit status), "timeout" (TimeoutExpired) or "garbage" (output that is not
\* <width>x<height>).
LipDir(exists, imgs, probe) == [exists |-> exists, imgs |-> imgs, probe |-> probe]
ImageProbeFailures == {"nonzero", "timeout", "garbage"}
ReadableLipDirs ==
    { [male |-> LipDir(TRUE, VisemeIDs, "ok"),
       female |-> LipDir(TRUE, VisemeIDs, "ok")],
      [male |-> LipDir(TRUE, VisemeIDs, "ok"),
       female |-> LipDir(TRUE, VisemeIDs \ {"03"}, "ok")],
      [male |-> LipDir(TRUE, VisemeIDs, "ok"),
       female |-> LipDir(FALSE, {}, "ok")] }
LipDirChoices ==
    ReadableLipDirs \cup
    { [male |-> LipDir(TRUE, VisemeIDs, k),
       female |-> LipDir(TRUE, VisemeIDs, "ok")] : k \in ImageProbeFailures }

TempNames == Req      \* names mkdtemp can draw, one for each request
Uuids == Req          \* values uuid4 can draw, one for each request

VARIABLES
    rq,            \* rq[r]: the locals of request r and its position
    localFiles,    \* regular files the requests can name as audio source
    outputs,       \* uuids u whose uploads/aividfromppt/videos/<u>.mp4 exists
    tempDirs,      \* existing lipsync_* directories |-> the files in them
    lipDirs,       \* the viseme folders
    usedUuids      \* uuid4 values drawn so far

vars == <<rq, localFiles, outputs, tempDirs, lipDirs, usedUuids>>

NoExc == [type |-> "None", cause |-> "None"]

IdleRec ==
    [ pc |-> "idle",
      text |-> <<>>, gender |-> 1, char_interval |-> 5,
      audio_file |-> LocalAudio,
      save_path |-> 0,          \* uuid of uploads/.../<uuid>.mp4, 0: none yet
      temp_dir |-> 0,           \* name of the lipsync_* directory, 0: none
      vis_seq |-> <<>>,
      audio_path |-> "None",    \* "None", "local" or "tmp"
      is_temporary |-> FALSE,
      audio_duration |-> 0, video_duration |-> 0,
      limit |-> 0,              \* the -t of stage 1
      silent_dur |-> 0,         \* duration of video_no_audio.mp4
      final_dur |-> 0,          \* duration of the output file
      exc |-> NoExc,
      status |-> 0,             \* HTTP status of the response, 0: none yet
      download |-> "None",      \* how requests.get and the streaming ended
      url |-> <<"h","t","t","p",":","/","/","a","/","a",".","a">>,
                                \* the characters of audio_file when a URL
      suffix |-> <<>>,          \* the suffix of the downloaded file's name
      nProbe |-> 0, nEnc1 |-> 0, nEnc2 |-> 0,   \* ffprobe / ffmpeg runs
      rc1 |-> -1, rc2 |-> -1,   \* exit status of the stages, -1: not run
      img_size |-> <<0, 0>>,    \* width, height from get_image_size
      checkedImgs |-> {},       \* viseme images tested with os.path.exists
      concat |-> <<>>,          \* the lines written to concat_list.txt
      audioChecked |-> FALSE,   \* audio file tested with os.path.exists
      probe |-> [run |-> "None",
                 format |-> [kind |-> "absent", val |-> 0],
                 streams |-> <<>>],          \* what ffprobe gave for the audio
      out_written |-> FALSE,    \* stage 2 wrote (part of) the output file
      finallyRan |-> FALSE,     \* the finally block of generate_video ran
      unlinkFailed |-> FALSE, rmtreeFailed |-> FALSE ]

InitWith(dirs) ==
    /\ rq = [r \in Req |-> IdleRec]
    /\ localFiles = {LocalAudio, HttpFileAudio}
    /\ outputs = {}
    /\ tempDirs = [n \in {} |-> {}]
    /\ lipDirs \in dirs
    /\ usedUuids = {}

Init == InitWith(LipDirChoices)

Set(r, upd) == rq' = [rq EXCEPT ![r] = upd @@ rq[r]]

\* ------------------------------------------------------- api_generate
ReceiveWithUrl(r, t, g, ci, a, u) ==
    /\ rq[r].pc = "idle"
    /\ Set(r, [pc |-> "api_validate", text |-> t, gender |-> g,
               char_interval |-> ci, audio_file |-> a, url |-> u])
    /\ UNCHANGED <<localFiles, outputs, tempDirs, lipDirs, usedUuids>>

Receive(r, t, g, ci, a) == ReceiveWithUrl(r, t, g, ci, a, DefaultUrl)

\* One request on a freshly started server, any input.
ReceiveOne(r) ==
    /\ \A q \in Req : rq[q].pc = "idle"
    /\ \E t \in ReqTexts, g \in Genders, ci \in CharIntervals, a \in AudioFiles :
          Receive(r, t, g, ci, a)

TextOk(t) == t # <<>>
GenderOk(g) == g \in {0, 1}
\* Faulty variant: the upper end of the range is excluded
IntervalOk_m(ci) == ~(ci <= 0 \/ ci >= 20)

IntervalOk(ci) == ~(ci <= 0 \/ ci > 20)

api_validate(r) ==
    /\ rq[r].pc = "api_validate"
    /\ IF TextOk(rq[r].text) /\ GenderOk(rq[r].gender)
          /\ IntervalOk(rq[r].char_interval)
       THEN Set(r, [pc |-> "api_uuid"])
       ELSE Set(r, [pc |-> "responded", status |-> 400,
                    exc |-> [type |-> "HTTPException", cause |-> "InvalidInput"]])
    /\ UNCHANGED <<localFiles, outputs, tempDirs, lipDirs, usedUuids>>

api_uuid(r) ==
    /\ rq[r].pc = "api_uuid"
    /\ \E u \in Uuids \ usedUuids :
          /\ usedUuids' = usedUuids \cup {u}
          /\ Set(r, [pc |-> "gv_lip_dir", save_path |-> u])
    /\ UNCHANGED <<localFiles, outputs, tempDirs, lipDirs>>

\* ----------------------------------------------------- generate_video
gender_folder(g) == IF g = 1 THEN "male" ELSE "female"

gv_lip_dir(r) ==
    /\ rq[r].pc = "gv_lip_dir"
    /\ IF ~lipDirs[gender_folder(rq[r].gender)].exists
       THEN Set(r, [pc |-> "api_except",
                    exc |-> [type |-> "FileNotFoundError",
                             cause |-> "LipDirMissing"]])
       ELSE Set(r, [pc |-> "gv_mkdtemp",
                    vis_seq |-> build_vis_seq(rq[r].text)])
    /\ UNCHANGED <<localFiles, outputs, tempDirs, lipDirs, usedUuids>>

\* tempfile.mkdtemp raises PermissionError when the temporary folder is not
\* writable and FileNotFoundError when there is no usable temporary folder.
MkdtempErrors ==
    { [type |-> "PermissionError", cause |-> "MkdtempDenied"],
      [type |-> "FileNotFoundError", cause |-> "NoTempDir"] }

\* Faulty variant: a fixed directory name, made with exist_ok
gv_mkdtemp_m(r) ==
    /\ rq[r].pc = "gv_mkdtemp"
    /\ tempDirs' = IF 1 \in DOMAIN tempDirs THEN tempDirs ELSE (1 :> {}) @@ tempDirs
    /\ Set(r, [pc |-> "load_audio", temp_dir |-> 1])
    /\ UNCHANGED <<localFiles, outputs, lipDirs, usedUuids>>

gv_mkdtemp(r) ==
    /\ rq[r].pc = "gv_mkdtemp"
    /\ \/ \E n \in TempNames \ DOMAIN tempDirs :
             /\ tempDirs' = (n :> {}) @@ tempDirs
             /\ Set(r, [pc |-> "load_audio", temp_dir |-> n])
       \/ /\ \E e \in MkdtempErrors : Set(r, [pc |-> "api_except", exc |-> e])
          /\ UNCHANGED tempDirs
    /\ UNCHANGED <<localFiles, outputs, lipDirs, usedUuids>>

\* ------------------------------------------------- _load_audio_robust
startswith_http(path) == path \in HttpSources

\* Faulty variant: the URL scheme is looked at before the file system
isfile_m(path) == path \in localFiles /\ ~startswith_http(path)

isfile(path) == path \in localFiles
exists(path) == path \in localFiles \/ path \in LocalDirs
DownloadOutcomes == {"ok", "connect_error", "http_error", "stream_error"}

NotFoundError == [type |-> "FileNotFoundError", cause |-> "AudioNotFound"]

\* Faulty variant: the request error is swallowed and the resolver goes on to the
\* local-path test
OnDownloadError_m == NotFoundError

\* except requests.RequestException as e: raise ConnectionError(...)
OnDownloadError == [type |-> "ConnectionError", cause |-> "DownloadFailed"]

\* Faulty variant: a local source is moved into the work directory and goes
\* away with it
load_audio_m(r) ==
    /\ rq[r].pc = "load_audio"
    /\ isfile(rq[r].audio_file)
    /\ localFiles' = localFiles \ {rq[r].audio_file}
    /\ tempDirs' = [tempDirs EXCEPT ![rq[r].temp_dir] = @ \cup {"audio"}]
    /\ Set(r, [pc |-> "ultra_start", audio_path |-> "tmp",
               is_temporary |-> TRUE])
    /\ UNCHANGED <<outputs, lipDirs, usedUuids>>

\* p.rfind(c), counted from 1; 0 when c is not in p
LastIndex(p, c) ==
    IF \E i \in DOMAIN p : p[i] = c
    THEN CHOOSE i \in DOMAIN p : p[i] = c /\ \A j \in DOMAIN p : p[j] = c => j <= i
    ELSE 0

\* Faulty variant: the extension starts at the last dot of the whole string
splitext_m(p) ==
    LET dot == LastIndex(p, ".")
    IN  IF dot > 0 THEN SubSeq(p, dot, Len(p)) ELSE <<>>

\* os.path.splitext(p)[1]: from the last dot of the last path component, when
\* a character other than a dot stands before it in that component
splitext(p) ==
    LET sep == LastIndex(p, "/")
        dot == LastIndex(p, ".")
    IN  IF dot > sep /\ \E k \in (sep + 1)..(dot - 1) : p[k] # "."
        THEN SubSeq(p, dot, Len(p))
        ELSE <<>>

DefaultSuffix == <<".","m","p","3">>

\* splitext(url)[1] or ".mp3"
Suffix(url) == IF splitext(url) = <<>> THEN DefaultSuffix ELSE splitext(url)

\* f"audio_{uuid4().hex}{suffix}", the hex digits left out
AudioFileName(suffix) == <<"a","u","d","i","o","_">> \o suffix

\* open(os.path.join(temp_dir, name), 'wb') creates a file in temp_dir when
\* name has no separator
DirectChild(name) == "/" \notin Range(name)

load_audio(r) ==
    /\ rq[r].pc = "load_audio"
    /\ LET src == rq[r].audio_file
           t == rq[r].temp_dir
           sfx == Suffix(rq[r].url)
       IN
       IF isfile(src)
       THEN /\ Set(r, [pc |-> "ultra_start", audio_path |-> "local",
                       is_temporary |-> FALSE])
            /\ UNCHANGED tempDirs
       ELSE IF startswith_http(src)
       THEN \E o \in DownloadOutcomes :
              CASE o \in {"ok", "stream_error"} /\ ~DirectChild(AudioFileName(sfx)) ->
                     \* open() finds no such folder inside temp_dir
                     /\ UNCHANGED tempDirs
                     /\ Set(r, [pc |-> "gv_except", download |-> o, suffix |-> sfx,
                                exc |-> [type |-> "FileNotFoundError",
                                         cause |-> "OpenFailed"]])
                [] o = "ok" ->
                     /\ tempDirs' = [tempDirs EXCEPT ![t] = @ \cup {"audio"}]
                     /\ Set(r, [pc |-> "ultra_start", audio_path |-> "tmp",
                                is_temporary |-> TRUE, download |-> o,
                                suffix |-> sfx])
                [] o = "stream_error" ->
                     \* the body broke off after the file was opened
                     /\ tempDirs' = [tempDirs EXCEPT ![t] = @ \cup {"audio"}]
                     /\ Set(r, [pc |-> "gv_except", exc |-> OnDownloadError,
                                download |-> o, suffix |-> sfx])
                [] OTHER ->
                     /\ UNCHANGED tempDirs
                     /\ Set(r, [pc |-> "gv_except", exc |-> OnDownloadError,
                                download |-> o])
       ELSE /\ UNCHANGED tempDirs
            /\ IF exists(src)
               THEN Set(r, [pc |-> "ultra_start", audio_path |-> "local",
                            is_temporary |-> FALSE])
               ELSE Set(r, [pc |-> "gv_except", exc |-> NotFoundError])
    /\ UNCHANGED <<localFiles, outputs, lipDirs, usedUuids>>

\* ----------------------------------- generate_video_ffmpeg_ultra_fast
Raise(r, to, type, cause, upd) ==
    Set(r, upd @@ [pc |-> to, exc |-> [type |-> type, cause |-> cause]])

lip_dir(r) == lipDirs[gender_folder(rq[r].gender)]

\* vis_seq[0], then get_image_size: an ffprobe run whose failure is replaced
\* by the fallback size.
ImageSize == <<512, 512>>         \* what ffprobe reports for a viseme image
FallbackSize == <<1920, 1080>>

\* Faulty variant: no fallback, the size stays unset
get_image_size_m(present, probe) ==
    IF present /\ probe = "ok" THEN ImageSize ELSE <<0, 0>>

\* ffprobe exits non-zero on a missing file; every failure is caught by the
\* bare except or skipped by the returncode test.
get_image_size(present, probe) ==
    IF present /\ probe = "ok" THEN ImageSize ELSE FallbackSize

\* Faulty variant: the prober is started on a default image before the
\* sequence is indexed
ultra_start_m(r) ==
    /\ rq[r].pc = "ultra_start"
    /\ IF rq[r].vis_seq = <<>>
       THEN Raise(r, "ultra_except", "IndexError", "EmptyVisSeq",
                  [nProbe |-> rq[r].nProbe + 1])
       ELSE Set(r, [pc |-> "build_concat", nProbe |-> rq[r].nProbe + 1,
                    img_size |-> get_image_size(
                                    rq[r].vis_seq[1] \in lip_dir(r).imgs,
                                    lip_dir(r).probe)])
    /\ UNCHANGED <<localFiles, outputs, tempDirs, lipDirs, usedUuids>>

ultra_start(r) ==
    /\ rq[r].pc = "ultra_start"
    /\ IF rq[r].vis_seq = <<>>
       THEN Raise(r, "ultra_except", "IndexError", "EmptyVisSeq",
                  [nProbe |-> rq[r].nProbe])
       ELSE Set(r, [pc |-> "build_concat", nProbe |-> rq[r].nProbe + 1,
                    img_size |-> get_image_size(
                                    rq[r].vis_seq[1] \in lip_dir(r).imgs,
                                    lip_dir(r).probe)])
    /\ UNCHANGED <<localFiles, outputs, tempDirs, lipDirs, usedUuids>>

\* The images tested by the loop of build_concat_demuxer_list: all of them,
\* or those up to and including the first missing one.
\* Faulty variant: only the first image is tested
CheckedUpTo_m(vis_seq, imgs) ==
    IF vis_seq = <<>> THEN {} ELSE {Head(vis_seq)}

RECURSIVE CheckedUpTo(_, _)
CheckedUpTo(vis_seq, imgs) ==
    IF vis_seq = <<>> THEN {}
    ELSE IF Head(vis_seq) \notin imgs THEN {Head(vis_seq)}
         ELSE {Head(vis_seq)} \cup CheckedUpTo(Tail(vis_seq), imgs)

\* The lines of concat_list.txt: "file '<lip_dir>/<vis>.png'" and
\* "duration <char_interval>".
FileLine(vis) == [kind |-> "file", img |-> vis, dur |-> 0]
DurationLine(char_interval) == [kind |-> "duration", img |-> "", dur |-> char_interval]

\* What the loop writes before it ends or raises.
RECURSIVE LoopLines(_, _, _)
LoopLines(vis_seq, char_interval, imgs) ==
    IF vis_seq = <<>> \/ Head(vis_seq) \notin imgs THEN <<>>
    ELSE <<FileLine(Head(vis_seq)), DurationLine(char_interval)>> \o
         LoopLines(Tail(vis_seq), char_interval, imgs)

\* Faulty variant: the last image is not written a second time
ClosingLines_m(vis_seq) == <<>>

\* vis_seq[-1] written again after the loop
ClosingLines(vis_seq) == <<FileLine(vis_seq[Len(vis_seq)])>>

build_concat_demuxer_list(r) ==
    /\ rq[r].pc = "build_concat"
    /\ LET t == rq[r].temp_dir
           imgs == lip_dir(r).imgs
           checked == CheckedUpTo(rq[r].vis_seq, imgs)
           looped == LoopLines(rq[r].vis_seq, rq[r].char_interval, imgs)
       IN
       /\ tempDirs' = [tempDirs EXCEPT ![t] = @ \cup {"concat_list.txt"}]
       /\ IF checked \subseteq imgs
          THEN Set(r, [pc |-> "get_audio_duration", checkedImgs |-> checked,
                       concat |-> looped \o ClosingLines(rq[r].vis_seq)])
          ELSE Raise(r, "ultra_except", "FileNotFoundError", "ImageMissing",
                     [checkedImgs |-> checked, concat |-> looped])
    /\ UNCHANGED <<localFiles, outputs, lipDirs, usedUuids>>

audio_exists(r) ==
    IF rq[r].audio_path = "tmp"
    THEN rq[r].temp_dir \in DOMAIN tempDirs /\ "audio" \in tempDirs[rq[r].temp_dir]
    ELSE exists(rq[r].audio_file)

NominalVisual(vis_seq, char_interval) == Len(vis_seq) * char_interval

\* ----------------------------------------------------- ffprobe output
\* A "duration" value of the JSON: the key is absent, the string "N/A", a
\* number (tenths of a second), or a string float() does not accept.
Absent == [kind |-> "absent", val |-> 0]
NotAvailable == [kind |-> "NA", val |-> 0]
Junk == [kind |-> "junk", val |-> 0]
Num(v) == [kind |-> "num", val |-> v]

ProbeNums == {-10, 0, 10, 20}
DurVals == {Absent, NotAvailable, Junk} \cup {Num(v) : v \in ProbeNums}
Streams == [codec_type : {"audio", "video"}, duration : DurVals]
StreamLists == UNION {[1..n -> Streams] : n \in 0..MaxStreams}

\* How the ffprobe run ended: "ok" (exit 0 and a JSON document), "nonzero",
\* "timeout" (TimeoutExpired), "empty" (exit 0, blank stdout), "badjson".
FailedRuns == {"nonzero", "timeout", "empty", "badjson"}
ProbeRun(run, format, streams) ==
    [run |-> run, format |-> format, streams |-> streams]
NoProbe == ProbeRun("None", Absent, <<>>)

\* Every output of the prober within the bounds.
ProbeOutputs ==
    {ProbeRun("ok", f, ss) : f \in DurVals, ss \in StreamLists} \cup
    {ProbeRun(k, Absent, <<>>) : k \in FailedRuns}

\* The outputs the whole-pipeline specifications draw from: a container
\* duration of 1..MaxAudioSec seconds, or one of three failures.
PipelineProbeOutputs ==
    {ProbeRun("ok", Num(d), <<>>) : d \in AudioDurations} \cup
    {ProbeRun("nonzero", Absent, <<>>), ProbeRun("timeout", Absent, <<>>),
     ProbeRun("ok", Absent, <<>>)}

Returned(d) == [kind |-> "return", val |-> d]
Unable == [kind |-> "raise", val |-> 0]

\* Faulty variant: a duration of zero is accepted
IsUsable_m(duration) == duration >= 0

\* if duration > 0
IsUsable(duration) == duration > 0

\* The loop over data['streams']; float() of a junk string raises ValueError,
\* which the enclosing except turns into the final raise.
RECURSIVE StreamScan(_)
StreamScan(streams) ==
    IF streams = <<>> THEN Unable
    ELSE LET st == Head(streams)
             d == st.duration
         IN  IF st.codec_type = "audio" /\ d.kind # "absent"
             THEN IF d.kind = "NA" THEN StreamScan(Tail(streams))
                  ELSE IF d.kind = "junk" THEN Unable
                  ELSE IF IsUsable(d.val) THEN Returned(d.val)
                  ELSE StreamScan(Tail(streams))
             ELSE StreamScan(Tail(streams))

\* The body of get_audio_duration after the run of ffprobe.
ParseProbe(out) ==
    IF out.run # "ok" THEN Unable
    ELSE LET f == out.format
         IN  IF f.kind = "junk" THEN Unable
             ELSE IF f.kind = "num" /\ IsUsable(f.val) THEN Returned(f.val)
             ELSE StreamScan(out.streams)

\* Faulty variant: a duration of zero is assumed and the pipeline goes on
OnProbeFailure_m(r, out) ==
    Set(r, [pc |-> "stage1", audioChecked |-> TRUE,
            nProbe |-> rq[r].nProbe + 1, probe |-> out,
            video_duration |->
               NominalVisual(rq[r].vis_seq, rq[r].char_interval)])

\* raise Exception("Unable to get audio duration")
OnProbeFailure(r, out) ==
    Raise(r, "ultra_except", "Exception", "ProbeFailed",
          [audioChecked |-> TRUE, nProbe |-> rq[r].nProbe + 1, probe |-> out])

\* get_audio_duration with the output of the prober drawn from outs; ffprobe
\* reads a duration only from a regular file.
get_audio_duration_on(r, outs) ==
    /\ rq[r].pc = "get_audio_duration"
    /\ IF ~audio_exists(r)
       THEN Raise(r, "ultra_except", "FileNotFoundError", "AudioNotFound",
                  [audioChecked |-> TRUE])
       ELSE \E out \in outs :
              /\ out.run = "ok" =>
                    rq[r].audio_path = "tmp" \/ isfile(rq[r].audio_file)
              /\ LET res == ParseProbe(out)
                 IN  IF res.kind = "return"
                     THEN Set(r, [pc |-> "stage1", audioChecked |-> TRUE,
                                  nProbe |-> rq[r].nProbe + 1, probe |-> out,
                                  audio_duration |-> res.val,
                                  video_duration |->
                                     NominalVisual(rq[r].vis_seq,
                                                   rq[r].char_interval)])
                     ELSE OnProbeFailure(r, out)
    /\ UNCHANGED <<localFiles, outputs, tempDirs, lipDirs, usedUuids>>

get_audio_duration(r) == get_audio_duration_on(r, PipelineProbeOutputs)

\* -t of stage 1
\* Faulty variant: the shorter of the two durations
Stage1Limit_m(audio_duration, video_duration) == Min(audio_duration, video_duration)

Stage1Limit(audio_duration, video_duration) == Max(audio_duration, video_duration)

\* overlay=...:shortest=1 of the endless colour source and the concat track
\* ends with the concat track; -t only cuts.
SilentDuration(limit, visual) == Min(limit, visual)

\* -shortest of stage 2
MuxDuration(video, audio) == Min(video, audio)

\* Faulty variant: the exit status of stage 1 is not looked at
Stage1Passed_m(rc) == TRUE

Stage1Passed(rc) == rc = 0

\* Faulty variant: a failed stage 1 is run a second time before giving up
stage1_m(r) ==
    /\ rq[r].pc = "stage1"
    /\ LET t == rq[r].temp_dir
           lim == Stage1Limit(rq[r].audio_duration, rq[r].video_duration)
       IN
       \E rc \in {0, 1} :
          /\ tempDirs' = [tempDirs EXCEPT ![t] = @ \cup {"video_no_audio.mp4"}]
          /\ IF Stage1Passed(rc)
             THEN Set(r, [pc |-> "stage2", nEnc1 |-> rq[r].nEnc1 + 1, rc1 |-> rc,
                          limit |-> lim,
                          silent_dur |-> SilentDuration(lim, rq[r].video_duration)])
             ELSE IF rq[r].nEnc1 = 0
             THEN Set(r, [nEnc1 |-> rq[r].nEnc1 + 1, rc1 |-> rc])
             ELSE Raise(r, "ultra_except", "Exception", "Stage1Failed",
                        [nEnc1 |-> rq[r].nEnc1 + 1, rc1 |-> rc, limit |-> lim])
    /\ UNCHANGED <<localFiles, outputs, lipDirs, usedUuids>>

stage1(r) ==
    /\ rq[r].pc = "stage1"
    /\ LET t == rq[r].temp_dir
           lim == Stage1Limit(rq[r].audio_duration, rq[r].video_duration)
       IN
       \E rc \in {0, 1} :
          IF Stage1Passed(rc)
          THEN /\ tempDirs' = [tempDirs EXCEPT ![t] = @ \cup {"video_no_audio.mp4"}]
               /\ Set(r, [pc |-> "stage2", nEnc1 |-> rq[r].nEnc1 + 1, rc1 |-> rc,
                          limit |-> lim,
                          silent_dur |-> SilentDuration(lim, rq[r].video_duration)])
          ELSE /\ \E wrote \in BOOLEAN :
                     tempDirs' = [tempDirs EXCEPT ![t] =
                         IF wrote THEN @ \cup {"video_no_audio.mp4"} ELSE @]
               /\ Raise(r, "ultra_except", "Exception", "Stage1Failed",
                        [nEnc1 |-> rq[r].nEnc1 + 1, rc1 |-> rc, limit |-> lim])
    /\ UNCHANGED <<localFiles, outputs, lipDirs, usedUuids>>

Stage2Passed(rc) == rc = 0

stage2(r) ==
    /\ rq[r].pc = "stage2"
    /\ LET out == rq[r].save_path
       IN
       \E rc \in {0, 1} :
          IF Stage2Passed(rc)
          THEN /\ outputs' = outputs \cup {out}
               /\ Set(r, [pc |-> "gv_finally", nEnc2 |-> rq[r].nEnc2 + 1,
                          rc2 |-> rc, out_written |-> TRUE,
                          final_dur |-> MuxDuration(rq[r].silent_dur,
                                                    rq[r].audio_duration)])
          ELSE \E wrote \in BOOLEAN :
                 /\ outputs' = IF wrote THEN outputs \cup {out} ELSE outputs
                 /\ Raise(r, "ultra_except", "Exception", "Stage2Failed",
                          [nEnc2 |-> rq[r].nEnc2 + 1, rc2 |-> rc,
                           out_written |-> wrote])
    /\ UNCHANGED <<localFiles, tempDirs, lipDirs, usedUuids>>

\* except Exception as e: raise Exception(...)
\* Faulty variant: the exception is re-raised as it is
WrapType_m(type) == type

WrapType(type) == "Exception"

ultra_except(r) ==
    /\ rq[r].pc = "ultra_except"
    /\ Set(r, [pc |-> "gv_except",
               exc |-> [rq[r].exc EXCEPT !.type = WrapType(@)]])
    /\ UNCHANGED <<localFiles, outputs, tempDirs, lipDirs, usedUuids>>

\* --------------------------------- generate_video: except and finally
\* Faulty variant: the partial output file is not unlinked
gv_except_m(r) ==
    /\ rq[r].pc = "gv_except"
    /\ Set(r, [pc |-> "gv_finally",
               exc |-> [rq[r].exc EXCEPT !.type = WrapType(@)]])
    /\ UNCHANGED <<localFiles, outputs, tempDirs, lipDirs, usedUuids>>

gv_except(r) ==
    /\ rq[r].pc = "gv_except"
    /\ LET out == rq[r].save_path
           wrapped == [rq[r].exc EXCEPT !.type = WrapType(@)]
       IN
       IF out \in outputs
       THEN \/ /\ outputs' = outputs \ {out}
               /\ Set(r, [pc |-> "gv_finally", exc |-> wrapped])
            \/ /\ UNCHANGED outputs        \* unlink raised: except: pass
               /\ Set(r, [pc |-> "gv_finally", exc |-> wrapped,
                          unlinkFailed |-> TRUE])
       ELSE /\ UNCHANGED outputs
            /\ Set(r, [pc |-> "gv_finally", exc |-> wrapped])
    /\ UNCHANGED <<localFiles, tempDirs, lipDirs, usedUuids>>

RemoveDir(dirs, t) == [n \in DOMAIN dirs \ {t} |-> dirs[n]]

\* Faulty variant: the directory is removed after the try body only, not in finally
gv_finally_m(r) ==
    /\ rq[r].pc = "gv_finally"
    /\ LET t == rq[r].temp_dir
       IN
       IF rq[r].exc = NoExc
       THEN /\ tempDirs' = RemoveDir(tempDirs, t)
            /\ Set(r, [pc |-> "api_return"])
       ELSE /\ UNCHANGED tempDirs
            /\ Set(r, [pc |-> "api_except"])
    /\ UNCHANGED <<localFiles, outputs, lipDirs, usedUuids>>

gv_finally(r) ==
    /\ rq[r].pc = "gv_finally"
    /\ LET t == rq[r].temp_dir
           next == IF rq[r].exc = NoExc THEN "api_return" ELSE "api_except"
       IN
       IF t \in DOMAIN tempDirs
       THEN \/ /\ tempDirs' = RemoveDir(tempDirs, t)
               /\ Set(r, [pc |-> next, finallyRan |-> TRUE])
            \/ /\ UNCHANGED tempDirs     \* rmtree raised: printed, not re-raised
               /\ Set(r, [pc |-> next, finallyRan |-> TRUE,
                          rmtreeFailed |-> TRUE])
       ELSE /\ UNCHANGED tempDirs
            /\ Set(r, [pc |-> next, finallyRan |-> TRUE])
    /\ UNCHANGED <<localFiles, outputs, lipDirs, usedUuids>>

\* ------------------------------------- api_generate: return and except
StatusOf(type) ==
    CASE type = "FileNotFoundError" -> 404
      [] type = "PermissionError" -> 403
      [] OTHER -> 500

\* Faulty variant: the error of the directory removal reaches the handler
api_return_m(r) ==
    /\ rq[r].pc = "api_return"
    /\ Set(r, [pc |-> "responded",
               status |-> IF rq[r].rmtreeFailed THEN 500 ELSE 200])
    /\ UNCHANGED <<localFiles, outputs, tempDirs, lipDirs, usedUuids>>

api_return(r) ==
    /\ rq[r].pc = "api_return"
    /\ Set(r, [pc |-> "responded", status |-> 200])
    /\ UNCHANGED <<localFiles, outputs, tempDirs, lipDirs, usedUuids>>

\* Faulty variant: only the two named exception types are mapped; any other
\* exception leaves the handler unanswered
api_except_m(r) ==
    /\ rq[r].pc = "api_except"
    /\ rq[r].exc.type \in {"FileNotFoundError", "PermissionError"}
    /\ Set(r, [pc |-> "responded", status |-> StatusOf(rq[r].exc.type)])
    /\ UNCHANGED <<localFiles, outputs, tempDirs, lipDirs, usedUuids>>

api_except(r) ==
    /\ rq[r].pc = "api_except"
    /\ Set(r, [pc |-> "responded", status |-> StatusOf(rq[r].exc.type)])
    /\ UNCHANGED <<localFiles, outputs, tempDirs, lipDirs, usedUuids>>

Next ==
    \E r \in Req :
       \/ ReceiveOne(r)
       \/ api_validate(r)
       \/ api_uuid(r)
       \/ gv_lip_dir(r)
       \/ gv_mkdtemp(r)
       \/ load_audio(r)
       \/ ultra_start(r)
       \/ build_concat_demuxer_list(r)
       \/ get_audio_duration(r)
       \/ stage1(r)
       \/ stage2(r)
       \/ ultra_except(r)
       \/ gv_except(r)
       \/ gv_finally(r)
       \/ api_return(r)
       \/ api_except(r)

Spec == Init /\ [][Next]_vars

\* Texts that pass validation: one without and one with a viseme.
PairTexts == { <<" ">>, <<"h","i">> }

\* A step of request r after it was received.
Proceed(r) ==
    \/ api_validate(r)
    \/ api_uuid(r)
    \/ gv_lip_dir(r)
    \/ gv_mkdtemp(r)
    \/ load_audio(r)
    \/ ultra_start(r)
    \/ build_concat_demuxer_list(r)
    \/ get_audio_duration(r)
    \/ stage1(r)
    \/ stage2(r)
    \/ ultra_except(r)
    \/ gv_except(r)
    \/ gv_finally(r)
    \/ api_return(r)
    \/ api_except(r)

\* The handler runs on: its own code is sequential, and the download, the
\* probers and the encoder stages are taken to return.
ReceiveLive(r) ==
    /\ \A q \in Req : rq[q].pc = "idle"
    /\ \E t \in PairTexts, g \in {0, 1}, a \in AudioFiles : Receive(r, t, g, 5, a)

NextLive == \E r \in Req : ReceiveLive(r) \/ Proceed(r)

SpecLive == Init /\ [][NextLive]_vars /\ \A r \in Req : WF_vars(Proceed(r))

\* Two requests side by side (the endpoint runs in the server's thread pool),
\* with inputs that pass validation.

PairAudio == {LocalAudio, MissingAudio, UrlAudio}

ReceivePair(r) ==
    \E t \in PairTexts, a \in PairAudio : Receive(r, t, 0, 5, a)

NextPair ==
    \E r \in Req :
       \/ ReceivePair(r)
       \/ api_validate(r)
       \/ api_uuid(r)
       \/ gv_lip_dir(r)
       \/ gv_mkdtemp(r)
       \/ load_audio(r)
       \/ ultra_start(r)
       \/ build_concat_demuxer_list(r)
       \/ get_audio_duration(r)
       \/ stage1(r)
       \/ stage2(r)
       \/ ultra_except(r)
       \/ gv_except(r)
       \/ gv_finally(r)
       \/ api_return(r)
       \/ api_except(r)

InitReadable == InitWith(ReadableLipDirs)

SpecPair == InitReadable /\ [][NextPair]_vars

\* The viseme mapper on every text of up to MaxTextLen characters over
\* letters (mapped and unmapped), a blank, a digit and ideographs.
VisAlphabet == {"a", "h", "B", " ", "1", "U+4F60", "U+597D", "U+662F",
                "U+4E2D", "U+5403", "U+5B89"}
VisTexts == UNION {[1..n -> VisAlphabet] : n \in 0..MaxTextLen}

ReceiveVis(r) ==
    /\ \A q \in Req : rq[q].pc = "idle"
    /\ \E t \in VisTexts : Receive(r, t, 1, 5, LocalAudio)

NextVis ==
    \E r \in Req :
       \/ ReceiveVis(r)
       \/ api_validate(r)
       \/ api_uuid(r)
       \/ gv_lip_dir(r)

SpecVis == InitReadable /\ [][NextVis]_vars

\* The audio resolver on every URL of up to MaxUrlLen characters after the
\* scheme, for a request whose text gives no viseme: it ends right after the
\* download.
ReceiveUrl(r) ==
    /\ \A q \in Req : rq[q].pc = "idle"
    /\ \E u \in Urls : ReceiveWithUrl(r, <<" ">>, 1, 5, UrlAudio, u)

NextUrl ==
    \E r \in Req :
       \/ ReceiveUrl(r)
       \/ api_validate(r)
       \/ api_uuid(r)
       \/ gv_lip_dir(r)
       \/ gv_mkdtemp(r)
       \/ load_audio(r)
       \/ ultra_start(r)
       \/ ultra_except(r)
       \/ gv_except(r)
       \/ gv_finally(r)
       \/ api_except(r)

SpecUrl == InitReadable /\ [][NextUrl]_vars

\* The duration prober on every output of ffprobe within the bounds, for one
\* request that gets as far as the probe.
ReceiveProbe(r) ==
    /\ \A q \in Req : rq[q].pc = "idle"
    /\ Receive(r, <<"h","i">>, 1, 5, LocalAudio)

get_audio_duration_any(r) == get_audio_duration_on(r, ProbeOutputs)

NextProbe ==
    \E r \in Req :
       \/ ReceiveProbe(r)
       \/ api_validate(r)
       \/ api_uuid(r)
       \/ gv_lip_dir(r)
       \/ gv_mkdtemp(r)
       \/ load_audio(r)
       \/ ultra_start(r)
       \/ build_concat_demuxer_list(r)
       \/ get_audio_duration_any(r)

SpecProbe == InitReadable /\ [][NextProbe]_vars

\* ===================================================================
\* Properties
\* ===================================================================
Responded(r) == rq[r].pc = "responded"
Received(r) == rq[r].pc \notin {"idle"}
Validated(r) == rq[r].pc \notin {"idle", "api_validate"}
TempDirExists(r) == rq[r].temp_dir \in DOMAIN tempDirs
OutputExists(r) == rq[r].save_path \in outputs
NoEncoderRun(r) == rq[r].nEnc1 = 0 /\ rq[r].nEnc2 = 0

\* C1 (as stated): once a request that created a temporary directory has
\* returned, that directory does not exist, whichever way the request ended.
C1_TempDirGone ==
    \A r \in Req :
        (Responded(r) /\ rq[r].temp_dir # 0) => ~TempDirExists(r)

\* C1 (amended): once a request that created a temporary directory has
\* returned, that directory does not exist, unless shutil.rmtree itself
\* raised in the finally block (the error is printed and swallowed).
C1_TempDirGoneUnlessRmtreeRaised ==
    \A r \in Req :
        (Responded(r) /\ rq[r].temp_dir # 0 /\ ~rq[r].rmtreeFailed)
            => ~TempDirExists(r)

C1_Witness ==
    \E r \in Req :
        /\ Responded(r) /\ rq[r].temp_dir # 0 /\ ~rq[r].rmtreeFailed
        /\ rq[r].exc.cause = "Stage1Failed"
        /\ ~TempDirExists(r)

\* C2 (as stated): after a request that did not report success has returned,
\* no file exists at its output path.
C2_NoOutputUnlessSuccess ==
    \A r \in Req :
        (Responded(r) /\ rq[r].status # 200) => ~OutputExists(r)

\* C2 (amended): after a request that did not report success has returned,
\* no file exists at its output path, unless the unlink of the partial file
\* itself raised (swallowed by except: pass); a file at the output path of a
\* returned request otherwise belongs to a request that reported success.
C2_NoOutputUnlessSuccessOrUnlinkRaised ==
    \A r \in Req :
        (Responded(r) /\ rq[r].status # 200 /\ ~rq[r].unlinkFailed)
            => ~OutputExists(r)

C2_Witness ==
    \E r \in Req :
        /\ Responded(r) /\ rq[r].status = 500
        /\ rq[r].rc2 = 1 /\ rq[r].out_written
        /\ ~rq[r].unlinkFailed /\ ~OutputExists(r)

\* C3: every non-empty text gives a viseme sequence of length at least 1, so
\* every request that passed the boundary check works on a non-empty sequence.
C3_VisSeqNonEmpty ==
    \A r \in Req :
        /\ (Received(r) /\ rq[r].text # <<>>)
              => Len(build_vis_seq(rq[r].text)) >= 1
        /\ rq[r].temp_dir # 0 => Len(rq[r].vis_seq) >= 1

IsBlank(t) == \A i \in DOMAIN t : t[i] = " "

NoResourceTouched(r) ==
    /\ rq[r].save_path = 0 /\ rq[r].temp_dir = 0
    /\ rq[r].download = "None"
    /\ rq[r].nProbe = 0 /\ NoEncoderRun(r)

\* C4: a request whose text is empty or only whitespace is rejected with
\* status 400 by the boundary check, and touches no resource.
C4_BlankTextRejected ==
    \A r \in Req :
        (Validated(r) /\ IsBlank(rq[r].text))
            => rq[r].status = 400 /\ NoResourceTouched(r)

\* C5: given a non-empty text, a request is rejected with status 400 exactly
\* when char_interval is outside (0, 2] or gender is neither 0 nor 1, and a
\* rejected request allocated no name, created no directory and started no
\* download or process.
C5_RejectedExactlyWhenOutOfRange ==
    \A r \in Req :
        (Validated(r) /\ rq[r].text # <<>>) =>
            /\ (rq[r].status = 400) <=>
                  \/ ~(0 < rq[r].char_interval /\ rq[r].char_interval <= 20)
                  \/ rq[r].gender \notin {0, 1}
            /\ rq[r].status = 400 =>
                  /\ NoResourceTouched(r)
                  /\ outputs = {} /\ DOMAIN tempDirs = {} /\ usedUuids = {}

C5_Witness ==
    \E r \in Req :
        /\ Responded(r) /\ rq[r].text # <<>> /\ rq[r].gender = 1
        /\ rq[r].char_interval = 25 /\ rq[r].status = 400

ImageMissing(r) ==
    \E v \in Range(rq[r].vis_seq) : v \notin lip_dir(r).imgs

Category(cause) ==
    CASE cause \in {"ImageMissing", "AudioNotFound", "LipDirMissing"} -> "AssetMissing"
      [] cause = "DownloadFailed" -> "DownloadFailed"
      [] cause = "ProbeFailed" -> "ProbeFailed"
      [] cause \in {"Stage1Failed", "Stage2Failed"} -> "EncodeFailed"
      [] cause = "InvalidInput" -> "InvalidInput"
      [] cause = "None" -> "None"
      [] OTHER -> "Unexpected"

FailureCategories ==
    {"AssetMissing", "DownloadFailed", "ProbeFailed", "EncodeFailed", "Unexpected"}

\* C7: two failed requests whose failures belong to different categories
\* (AssetMissing, DownloadFailed, ProbeFailed, EncodeFailed, Unexpected) get
\* different statuses from the request boundary.
C7_CategoriesDistinguishable ==
    \A r, q \in Req :
        ( /\ Responded(r) /\ Responded(q)
          /\ Category(rq[r].exc.cause) \in FailureCategories
          /\ Category(rq[q].exc.cause) \in FailureCategories
          /\ Category(rq[r].exc.cause) # Category(rq[q].exc.cause) )
        => rq[r].status # rq[q].status

DownloadBroke(r) == rq[r].download \notin {"None", "ok"}

\* C8 (as stated): when the fetch of an http(s) audio source fails, the
\* resolver raises the download error (it does not go on to the local-path
\* test and returns no path), no prober or encoder runs, the request fails and
\* its temporary directory is gone when it has returned.
C8_DownloadFailureIsTerminal ==
    \A r \in Req :
        DownloadBroke(r) =>
            /\ rq[r].exc.cause = "DownloadFailed"
            /\ rq[r].audio_path = "None"
            /\ rq[r].nProbe = 0 /\ NoEncoderRun(r)
            /\ rq[r].status # 200
            /\ Responded(r) => (rq[r].status = 500 /\ ~TempDirExists(r))

\* C8 (amended): as C8, but the temporary directory (with a partly downloaded
\* file in it) is gone after the return only if shutil.rmtree did not raise.
C8_DownloadFailureIsTerminalUnlessRmtreeRaised ==
    \A r \in Req :
        DownloadBroke(r) =>
            /\ rq[r].exc.cause = "DownloadFailed"
            /\ rq[r].audio_path = "None"
            /\ rq[r].nProbe = 0 /\ NoEncoderRun(r)
            /\ rq[r].status # 200
            /\ Responded(r) =>
                  /\ rq[r].status = 500
                  /\ ~rq[r].rmtreeFailed => ~TempDirExists(r)

C8_Witness ==
    \E r \in Req :
        /\ Responded(r) /\ rq[r].download = "stream_error"
        /\ rq[r].status = 500 /\ ~rq[r].rmtreeFailed /\ ~TempDirExists(r)

\* C9: the output of a successful request lasts max(nominal visual duration,
\* probed audio duration): at least the audio duration when the audio is
\* longer than len(visemes) x char_interval, at least that product otherwise.
C9_FinalDurationIsMax ==
    \A r \in Req :
        rq[r].status = 200 =>
            rq[r].final_dur =
                Max(Len(rq[r].vis_seq) * rq[r].char_interval, rq[r].audio_duration)

\* The state of the render job of request r.
JobState(r) ==
    CASE rq[r].exc # NoExc -> "Failed"
      [] rq[r].status = 200 -> "Done"
      [] rq[r].rc2 = 0 -> "Muxed"
      [] rq[r].rc1 = 0 -> "VisualTrackEncoded"
      [] rq[r].pc = "stage1" -> "AssetsValidated"
      [] OTHER -> "Idle"

JobEdges ==
    { <<"Idle", "AssetsValidated">>, <<"AssetsValidated", "VisualTrackEncoded">>,
      <<"VisualTrackEncoded", "Muxed">>, <<"Muxed", "Done">>,
      <<"Idle", "Failed">>, <<"AssetsValidated", "Failed">>,
      <<"VisualTrackEncoded", "Failed">>, <<"Muxed", "Failed">> }

C10_Ordered ==
    \A r \in Req :
        /\ rq[r].nEnc2 > 0 => (rq[r].nEnc1 = 1 /\ rq[r].rc1 = 0)
        /\ rq[r].status = 200 => (rq[r].nEnc2 = 1 /\ rq[r].rc2 = 0)

C10_Step ==
    \A r \in Req :
        /\ JobState(r)' # JobState(r) => <<JobState(r), JobState(r)'>> \in JobEdges
        /\ JobState(r) = "Failed" =>
              /\ rq'[r].nProbe = rq[r].nProbe
              /\ rq'[r].nEnc1 = rq[r].nEnc1
              /\ rq'[r].nEnc2 = rq[r].nEnc2
              /\ rq'[r].status # 200

\* C10: the render job of a request moves only along Idle -> AssetsValidated
\* -> VisualTrackEncoded -> Muxed -> Done or into Failed: stage 2 runs only
\* after stage 1 exited with 0, success is reported only after stage 2 exited
\* with 0, and after a failure no prober or encoder runs and no success is
\* reported.
C10_JobStateMachine == []C10_Ordered /\ [][C10_Step]_vars

C10_Witness ==
    \E r \in Req :
        /\ Responded(r) /\ rq[r].status = 200
        /\ rq[r].nEnc1 = 1 /\ rq[r].rc1 = 0 /\ rq[r].nEnc2 = 1 /\ rq[r].rc2 = 0

\* C11: each encoder stage runs at most once in a request; a non-zero exit of
\* stage 1 or of stage 2 fails the request in the same step, with the error
\* that carries the captured standard-error text of that stage, and no
\* encoder runs after a failure.
C11_Bounded ==
    \A r \in Req :
        /\ rq[r].nEnc1 <= 1 /\ rq[r].nEnc2 <= 1
        /\ (rq[r].nEnc1 = 1) <=> (rq[r].rc1 # -1)
        /\ (rq[r].nEnc2 = 1) <=> (rq[r].rc2 # -1)
        /\ rq[r].rc1 \notin {-1, 0} =>
              /\ rq[r].exc.cause = "Stage1Failed"
              /\ rq[r].nEnc2 = 0 /\ rq[r].status \in {0, 500}
        /\ rq[r].rc2 \notin {-1, 0} =>
              /\ rq[r].exc.cause = "Stage2Failed"
              /\ rq[r].status \in {0, 500}

C11_NoRetry ==
    \A r \in Req :
        rq[r].exc.cause \in {"Stage1Failed", "Stage2Failed"} =>
            /\ rq'[r].nEnc1 = rq[r].nEnc1 /\ rq'[r].nEnc2 = rq[r].nEnc2
            /\ rq'[r].exc.cause = rq[r].exc.cause

C11_EncoderAtMostOnce == []C11_Bounded /\ [][C11_NoRetry]_vars

C11_Witness ==
    \E r \in Req :
        /\ Responded(r) /\ rq[r].status = 500
        /\ rq[r].nEnc1 = 1 /\ rq[r].rc1 = 0
        /\ rq[r].nEnc2 = 1 /\ rq[r].rc2 = 1
        /\ rq[r].exc.cause = "Stage2Failed"

\* Request r is between mkdtemp and the end of its finally block.
HoldsTempDir(r) ==
    /\ rq[r].temp_dir # 0
    /\ rq[r].pc \in {"load_audio", "ultra_start", "build_concat",
                     "get_audio_duration", "stage1", "stage2",
                     "ultra_except", "gv_except", "gv_finally"}

\* The directory named rq[r].temp_dir is the one r made: r still runs, or its
\* removal failed and left it behind.
OwnsTempDir(r) == HoldsTempDir(r) \/ (rq[r].temp_dir # 0 /\ rq[r].rmtreeFailed)

C12_Distinct ==
    \A r, q \in Req :
        r # q =>
            /\ (rq[r].save_path # 0 /\ rq[q].save_path # 0)
                  => rq[r].save_path # rq[q].save_path
            /\ (OwnsTempDir(r) /\ OwnsTempDir(q))
                  => rq[r].temp_dir # rq[q].temp_dir

\* A step of another request leaves the files of q alone.
C12_Frame ==
    \A q \in Req :
        rq'[q] = rq[q] =>
            /\ rq[q].save_path # 0 =>
                  ((rq[q].save_path \in outputs') <=> (rq[q].save_path \in outputs))
            /\ OwnsTempDir(q) =>
                  /\ rq[q].temp_dir \in DOMAIN tempDirs
                  /\ rq[q].temp_dir \in DOMAIN tempDirs'
                  /\ tempDirs'[rq[q].temp_dir] = tempDirs[rq[q].temp_dir]

\* C12: in every interleaving of concurrent requests their temporary
\* directories are pairwise distinct and their output paths are pairwise
\* distinct, so concat_list.txt and video_no_audio.mp4 are never shared, and
\* no step of one request (its clean-up included) removes or rewrites a file
\* of another request, running or finished.
C12_Isolation == []C12_Distinct /\ [][C12_Frame]_vars

C12_Witness ==
    \E r, q \in Req :
        /\ r # q
        /\ rq[r].pc = "stage2" /\ rq[q].pc = "gv_finally"
        /\ rq[q].exc.cause = "Stage2Failed"
        /\ rq[r].temp_dir \in DOMAIN tempDirs /\ rq[q].temp_dir \in DOMAIN tempDirs
        /\ "video_no_audio.mp4" \in tempDirs[rq[r].temp_dir]
        /\ "video_no_audio.mp4" \in tempDirs[rq[q].temp_dir]
        /\ rq[r].temp_dir # rq[q].temp_dir
        /\ rq[r].save_path # rq[q].save_path

\* build_vis_seq has run in request r.
VisComputed(r) ==
    /\ rq[r].pc \notin {"idle", "api_validate", "api_uuid", "gv_lip_dir"}
    /\ rq[r].exc.cause \notin {"InvalidInput", "LipDirMissing"}

CJKPositions(t) == {i \in DOMAIN t : IsCJK(t[i])}
LatinRunStarts(t) ==
    {i \in DOMAIN t : IsLatin(t[i]) /\ (i = 1 \/ ~IsLatin(t[i - 1]))}
CJKRunStarts(t) ==
    {i \in DOMAIN t : IsCJK(t[i]) /\ (i = 1 \/ ~IsCJK(t[i - 1]))}

\* C13: the viseme sequence of a text has one element for each ideograph and
\* one for each maximal run of ASCII letters.
C13_OnePerSyllableAndRun ==
    \A r \in Req :
        VisComputed(r) =>
            Len(rq[r].vis_seq) = Cardinality(CJKPositions(rq[r].text))
                                 + Cardinality(LatinRunStarts(rq[r].text))

C13_Witness ==
    \E r \in Req :
        /\ VisComputed(r)
        /\ rq[r].text = <<"h", "a", "U+4F60">>
        /\ Len(rq[r].vis_seq) = 2

\* The phonetic units of a text: the first letter of each syllable and the
\* upper-cased first letter of each Latin run.
UnitsOf(t) ==
    {PINYIN[t[i]][1] : i \in CJKPositions(t)} \cup
    {upper(t[i]) : i \in LatinRunStarts(t)}

\* C14: phone2vis gives a value for every unit, "03" for a unit that is not
\* in the table, and always one of "00".."09"; so does every element of every
\* viseme sequence.
C14_Phone2VisTotal ==
    \A r \in Req :
        VisComputed(r) =>
            /\ \A i \in DOMAIN rq[r].vis_seq : rq[r].vis_seq[i] \in VisemeIDs
            /\ \A u \in UnitsOf(rq[r].text) \cup Range(rq[r].text) :
                  /\ phone2vis(u) \in VisemeIDs
                  /\ u \notin DOMAIN VIS_MAP => phone2vis(u) = "03"
            /\ (\A u \in UnitsOf(rq[r].text) : u \notin DOMAIN VIS_MAP)
                  => \A i \in DOMAIN rq[r].vis_seq : rq[r].vis_seq[i] = "03"

C14_Witness ==
    \E r \in Req :
        /\ VisComputed(r)
        /\ rq[r].text = <<"h", "1", "U+597D">>
        /\ "H" \notin DOMAIN VIS_MAP /\ "h" \notin DOMAIN VIS_MAP
        /\ rq[r].vis_seq = <<"03", "03">>

\* The visemes of a text read off position by position.
RECURSIVE RefVisFrom(_, _)
RefVisFrom(t, i) ==
    IF i > Len(t) THEN <<>>
    ELSE (IF IsCJK(t[i]) THEN <<phone2vis(PINYIN[t[i]][1])>>
          ELSE IF i \in LatinRunStarts(t) THEN <<phone2vis(upper(t[i]))>>
          ELSE <<>>)
         \o RefVisFrom(t, i + 1)

IsLetterOrCJK(c) == IsCJK(c) \/ IsLatin(c)

\* C15: the tokens of a text are its maximal runs of one script (ideographs
\* or ASCII letters) from left to right, never joined across a change of
\* script; other characters give no viseme; the viseme sequence is the
\* visemes of the tokens in token order.
C15_TokensAreScriptRuns ==
    \A r \in Req :
        VisComputed(r) =>
            LET t == rq[r].text
                toks == split_zh_en(t)
            IN  /\ \A k \in DOMAIN toks :
                      /\ toks[k] # <<>>
                      /\ \/ \A i \in DOMAIN toks[k] : IsCJK(toks[k][i])
                         \/ \A i \in DOMAIN toks[k] : IsLatin(toks[k][i])
                /\ Chain(toks) = SelectSeq(t, IsLetterOrCJK)
                /\ Len(toks) = Cardinality(CJKRunStarts(t) \cup LatinRunStarts(t))
                /\ rq[r].vis_seq = RefVisFrom(t, 1)

C15_Witness ==
    \E r \in Req :
        /\ VisComputed(r)
        /\ rq[r].text = <<"a", "U+4F60", "B">>
        /\ Len(split_zh_en(rq[r].text)) = 3
        /\ rq[r].vis_seq = <<"05", "03", "00">>

\* The step of request r is a return or a raise of the audio resolver.
ResolverStep(r) == rq[r].pc = "load_audio" /\ rq'[r].pc # "load_audio"

ReturnedUnchanged(r) ==
    /\ rq'[r].pc = "ultra_start"
    /\ rq'[r].audio_path = "local"
    /\ ~rq'[r].is_temporary
    /\ tempDirs' = tempDirs

\* The download branch: a new file in the work directory returned as temporary,
\* or the download error.
DownloadTaken(r) ==
    LET t == rq[r].temp_dir
    IN  \/ /\ rq'[r].pc = "ultra_start"
           /\ rq'[r].audio_path = "tmp"
           /\ rq'[r].is_temporary
           /\ "audio" \notin tempDirs[t]
           /\ tempDirs' = [tempDirs EXCEPT ![t] = @ \cup {"audio"}]
        \/ /\ rq'[r].pc = "gv_except"
           /\ rq'[r].exc.cause = "DownloadFailed"

NotFoundRaised(r) ==
    /\ rq'[r].pc = "gv_except"
    /\ rq'[r].exc = [type |-> "FileNotFoundError", cause |-> "AudioNotFound"]
    /\ tempDirs' = tempDirs

TemporaryIffDownloaded ==
    \A r \in Req : rq[r].is_temporary <=> rq[r].audio_path = "tmp"

C16_StepAsClaimed(r) ==
    ResolverStep(r) =>
        LET src == rq[r].audio_file
        IN  IF src \in localFiles \cup LocalDirs THEN ReturnedUnchanged(r)
            ELSE IF src \in HttpSources THEN DownloadTaken(r)
            ELSE NotFoundRaised(r)

\* C16 as stated: (a) an existing local path is returned unchanged and not
\* temporary, also with an http(s) prefix; (b) otherwise an http(s) source is
\* downloaded into the work directory and returned as temporary; (c) any other
\* source is not found; is_temporary exactly for a download.
C16_ExistingPathFirst ==
    []TemporaryIffDownloaded /\ [][\A r \in Req : C16_StepAsClaimed(r)]_vars

C16_StepAmended(r) ==
    ResolverStep(r) =>
        LET src == rq[r].audio_file
        IN  IF src \in localFiles THEN ReturnedUnchanged(r)
            ELSE IF src \in HttpSources THEN DownloadTaken(r)
            ELSE IF src \in LocalDirs THEN ReturnedUnchanged(r)
            ELSE NotFoundRaised(r)

\* C16 amended: (a) an existing regular file is returned unchanged and not
\* temporary, also with an http(s) prefix; (b) otherwise an http(s) source is
\* downloaded (or the download error is raised), also when a directory of that
\* name exists; (c) otherwise an existing path that is not a regular file is
\* returned unchanged, and any other source is not found; is_temporary exactly
\* for a download.
C16_ExistingFileFirst ==
    []TemporaryIffDownloaded /\ [][\A r \in Req : C16_StepAmended(r)]_vars

C16_Witness ==
    \E r \in Req :
        /\ rq[r].audio_file = HttpFileAudio
        /\ rq[r].pc = "ultra_start"
        /\ rq[r].audio_path = "local"
        /\ ~rq[r].is_temporary
        /\ tempDirs[rq[r].temp_dir] = {}

\* No step of any request removes or changes a file that existed before it:
\* the local audio sources and the viseme images.
PreexistingKept == localFiles' = localFiles /\ lipDirs' = lipDirs

\* C17 as stated: after a request has returned, the only thing it has left
\* behind is the output file of a success; after a failure nothing it created
\* is left; every file that existed before still exists unchanged.
C17_OnlyOutputOutlives ==
    /\ [](\A r \in Req :
            Responded(r) =>
                /\ DOMAIN tempDirs = {}
                /\ rq[r].status # 200 => outputs = {}
                /\ rq[r].status = 200 => outputs = {rq[r].save_path})
    /\ [][PreexistingKept]_vars

\* C17 amended: the same, except that the work directory is left behind when
\* its removal raised, and the partial output is left behind when its unlink
\* raised.
C17_OnlyOutputOutlivesUnlessCleanupRaised ==
    /\ [](\A r \in Req :
            Responded(r) =>
                /\ DOMAIN tempDirs = {} \/
                      (rq[r].rmtreeFailed /\ DOMAIN tempDirs = {rq[r].temp_dir})
                /\ rq[r].status # 200 =>
                      outputs = {} \/
                        (rq[r].unlinkFailed /\ outputs = {rq[r].save_path})
                /\ rq[r].status = 200 => outputs = {rq[r].save_path})
    /\ [][PreexistingKept]_vars

C17_Witness ==
    \E r \in Req :
        /\ Responded(r)
        /\ rq[r].status = 500
        /\ rq[r].exc.cause = "Stage2Failed"
        /\ rq[r].audio_file = LocalAudio
        /\ LocalAudio \in localFiles
        /\ ~rq[r].rmtreeFailed /\ ~rq[r].unlinkFailed
        /\ DOMAIN tempDirs = {}
        /\ outputs = {}

CleanupFailed(r) == rq[r].rmtreeFailed \/ rq[r].unlinkFailed

CleanupStep(r) ==
    rq[r].pc \in {"gv_except", "gv_finally"} /\ rq'[r] # rq[r]

\* C18: a cleanup action that itself fails does not change the outcome: the
\* request succeeds exactly when the last encoder stage succeeded, a failed
\* request keeps the cause it failed with through both cleanup steps, and its
\* status is the one of that failure.
C18_CleanupNeverEscalated ==
    /\ [](\A r \in Req :
            Responded(r) /\ CleanupFailed(r) =>
                /\ rq[r].status = 200 <=> rq[r].rc2 = 0
                /\ rq[r].status = 200 <=> rq[r].exc = NoExc
                /\ rq[r].status # 200 =>
                      /\ rq[r].status = StatusOf(rq[r].exc.type)
                      /\ rq[r].exc.cause \in
                            {"AudioNotFound", "DownloadFailed", "EmptyVisSeq",
                             "ImageMissing", "ProbeFailed", "Stage1Failed",
                             "Stage2Failed"})
    /\ [][\A r \in Req :
            CleanupStep(r) =>
                /\ rq'[r].exc.cause = rq[r].exc.cause
                /\ rq'[r].pc = IF rq[r].pc = "gv_except" THEN "gv_finally"
                               ELSE IF rq[r].exc = NoExc THEN "api_return"
                               ELSE "api_except"]_vars

C18_Witness ==
    \E r \in Req :
        /\ Responded(r)
        /\ rq[r].rmtreeFailed /\ rq[r].unlinkFailed
        /\ rq[r].status = 500
        /\ rq[r].exc.cause = "Stage2Failed"
        /\ rq[r].rc2 = 1

\* C20: the -t value handed to encoder stage 1 is the larger of the probed
\* audio duration and len(vis_seq) * char_interval, for the viseme sequence and
\* the interval of the request.
C20_Stage1LimitIsMax ==
    \A r \in Req :
        rq[r].nEnc1 > 0 =>
            LET nominal == Len(rq[r].vis_seq) * rq[r].char_interval
                audio == rq[r].audio_duration
            IN  /\ audio \in AudioDurations
                /\ rq[r].limit = IF audio >= nominal THEN audio ELSE nominal
                /\ rq[r].limit >= audio /\ rq[r].limit >= nominal

C20_Witness ==
    \E r \in Req :
        /\ rq[r].nEnc1 = 1
        /\ rq[r].text = <<"b","y","e"," ","U+4F60","U+597D">>
        /\ rq[r].char_interval = 20
        /\ rq[r].audio_duration = 10
        /\ rq[r].limit = 60

\* build_concat_demuxer_list has returned in request r.
ConcatReturned(r) == rq[r].pc = "get_audio_duration" \/ rq[r].audioChecked

RECURSIVE SumDurations(_)
SumDurations(lines) ==
    IF lines = <<>> THEN 0
    ELSE (IF Head(lines).kind = "duration" THEN Head(lines).dur ELSE 0)
         + SumDurations(Tail(lines))

\* C21: for N >= 1 visemes the frame-duration program is, in viseme order, N
\* image entries each followed by a duration of char_interval, then one closing
\* entry, the N-th image again, without a duration; its durations add up to
\* N * char_interval.
C21_ConcatProgram ==
    \A r \in Req :
        ConcatReturned(r) =>
            LET p == rq[r].concat
                N == Len(rq[r].vis_seq)
                ci == rq[r].char_interval
            IN  /\ N >= 1 /\ ci > 0 /\ ci <= 20
                /\ Len(p) = 2 * N + 1
                /\ \A i \in 1..N :
                      /\ p[2 * i - 1].kind = "file"
                      /\ p[2 * i - 1].img = rq[r].vis_seq[i]
                      /\ p[2 * i].kind = "duration"
                      /\ p[2 * i].dur = ci
                /\ p[2 * N + 1].kind = "file"
                /\ p[2 * N + 1].img = rq[r].vis_seq[N]
                /\ SumDurations(p) = N * ci
                /\ rq[r].audio_duration # 0 => rq[r].video_duration = SumDurations(p)

C21_Witness ==
    \E r \in Req :
        /\ ConcatReturned(r)
        /\ rq[r].text = <<"b","y","e"," ","U+4F60","U+597D">>
        /\ rq[r].char_interval = 20
        /\ Len(rq[r].concat) = 7
        /\ SumDurations(rq[r].concat) = 60
        /\ rq[r].concat[7] = rq[r].concat[5]

\* get_audio_duration has run ffprobe in request r.
Probed(r) == rq[r].probe.run # "None"
ProbeReturned(r) == Probed(r) /\ rq[r].pc = "stage1"
ProbeRaised(r) == Probed(r) /\ rq[r].exc.cause = "ProbeFailed"

\* The positive durations an output of the prober holds, in the container and
\* in the audio streams.
PositiveAudioStreams(out) ==
    {i \in DOMAIN out.streams :
        /\ out.streams[i].codec_type = "audio"
        /\ out.streams[i].duration.kind = "num"
        /\ out.streams[i].duration.val > 0}
ContainerPositive(out) == out.format.kind = "num" /\ out.format.val > 0
HoldsJunk(out) ==
    \/ out.format.kind = "junk"
    \/ \E i \in DOMAIN out.streams : out.streams[i].duration.kind = "junk"

\* C22: get_audio_duration returns or raises; a returned duration is strictly
\* positive; an output with only zero, negative, 'N/A' or missing durations
\* makes it raise, never return 0.
C22_DurationPositive ==
    \A r \in Req :
        Probed(r) =>
            /\ ProbeReturned(r) \/ ProbeRaised(r)
            /\ ProbeReturned(r) => rq[r].audio_duration > 0 /\ rq[r].exc = NoExc
            /\ ProbeRaised(r) => rq[r].audio_duration = 0
            /\ (/\ rq[r].probe.run = "ok"
                /\ ~ContainerPositive(rq[r].probe)
                /\ PositiveAudioStreams(rq[r].probe) = {}
                /\ ~HoldsJunk(rq[r].probe))
                  => ProbeRaised(r)

C22_Witness ==
    \E r \in Req :
        /\ ProbeRaised(r)
        /\ rq[r].probe.run = "ok"
        /\ rq[r].probe.format = Num(0)
        /\ Len(rq[r].probe.streams) = 2
        /\ rq[r].probe.streams[1] = [codec_type |-> "audio", duration |-> NotAvailable]
        /\ rq[r].probe.streams[2] = [codec_type |-> "audio", duration |-> Absent]

\* C23 (as stated): when the container duration is unusable (absent, 'N/A',
\* zero, negative or not a number) and some audio stream has a positive
\* duration, a stream duration is returned.
C23_StreamFallback ==
    \A r \in Req :
        (/\ Probed(r)
         /\ rq[r].probe.run = "ok"
         /\ ~ContainerPositive(rq[r].probe)
         /\ PositiveAudioStreams(rq[r].probe) # {})
            => /\ ProbeReturned(r)
               /\ \E i \in PositiveAudioStreams(rq[r].probe) :
                     rq[r].audio_duration = rq[r].probe.streams[i].duration.val

\* The duration of the audio of request r could not be determined: the prober
\* exited non-zero, timed out or gave no usable duration, or the audio file
\* was missing when get_audio_duration looked.
DurationUndetermined(r) ==
    \/ /\ Probed(r)
       /\ \/ rq[r].probe.run # "ok"
          \/ ~ContainerPositive(rq[r].probe) /\ PositiveAudioStreams(rq[r].probe) = {}
    \/ rq[r].audioChecked /\ ~Probed(r)

\* C24: when the audio duration cannot be determined the request fails and
\* neither encoder stage is run for it.
C24_ProbeFailureIsTerminal ==
    \A r \in Req :
        DurationUndetermined(r) =>
            /\ rq[r].exc.cause \in {"ProbeFailed", "AudioNotFound"}
            /\ rq[r].pc \notin {"stage1", "stage2", "api_return"}
            /\ NoEncoderRun(r)
            /\ rq[r].rc1 = -1 /\ rq[r].rc2 = -1
            /\ ~rq[r].out_written
            /\ rq[r].status \in {0, 500}
            /\ Responded(r) => rq[r].status = 500

C24_Witness ==
    \E r \in Req :
        /\ Responded(r)
        /\ rq[r].probe.run = "timeout"
        /\ rq[r].exc.cause = "ProbeFailed"
        /\ rq[r].status = 500
        /\ NoEncoderRun(r)

\* get_image_size has been called in request r.
SizeProbed(r) == rq[r].nProbe >= 1

\* C25: get_image_size never fails a request: when the probe of the first
\* image fails (exit status, timeout, output that does not parse, missing
\* file) the size is the fallback (1920, 1080), and after every outcome the
\* next step is the building of the frame-duration program, with no error
\* pending.
C25_ImageSizeBestEffort ==
    /\ [](\A r \in Req :
            SizeProbed(r) =>
                rq[r].img_size =
                    IF rq[r].vis_seq[1] \in lip_dir(r).imgs /\ lip_dir(r).probe = "ok"
                    THEN ImageSize ELSE <<1920, 1080>>)
    /\ [][\A r \in Req :
            (rq[r].pc = "ultra_start" /\ rq'[r] # rq[r] /\ rq[r].vis_seq # <<>>)
               => /\ rq'[r].pc = "build_concat"
                  /\ rq'[r].exc = NoExc
                  /\ rq'[r].nProbe = rq[r].nProbe + 1]_vars

C25_Witness ==
    \E r \in Req :
        /\ Responded(r)
        /\ rq[r].status = 200
        /\ lip_dir(r).probe = "timeout"
        /\ rq[r].img_size = <<1920, 1080>>

\* The reference mapper: the initial of a syllable, "sh", "ch" and "zh" taken
\* as one unit before the single first letter, looked up in VIS_MAP with
\* default "03".
TwoLetterInitials ==
    (<<"s","h">> :> "sh") @@ (<<"c","h">> :> "ch") @@ (<<"z","h">> :> "zh")

RefInitial(syl) ==
    IF Len(syl) >= 2 /\ SubSeq(syl, 1, 2) \in DOMAIN TwoLetterInitials
    THEN TwoLetterInitials[SubSeq(syl, 1, 2)]
    ELSE syl[1]

RefSyllableVis(syl) ==
    IF RefInitial(syl) \in DOMAIN VIS_MAP THEN VIS_MAP[RefInitial(syl)] ELSE "03"

CJKOnly(t) == SelectSeq(t, IsCJK)

\* C26: for every ideograph of a text the viseme tok2vis gives is the one the
\* reference mapper gives for its syllable, and the visemes of a text without
\* Latin letters are those of the reference mapper in order.
C26_AgreesWithLongestInitial ==
    \A r \in Req :
        VisComputed(r) =>
            LET t == rq[r].text
            IN  /\ \A i \in CJKPositions(t) :
                      tok2vis(<<t[i]>>) = <<RefSyllableVis(PINYIN[t[i]])>>
                /\ LatinRunStarts(t) = {} =>
                      rq[r].vis_seq =
                         [i \in DOMAIN CJKOnly(t) |->
                             RefSyllableVis(PINYIN[CJKOnly(t)[i]])]

C26_Witness ==
    \E r \in Req :
        /\ VisComputed(r)
        /\ rq[r].text = <<"U+662F", "U+4E2D", "U+5403">>
        /\ RefInitial(PINYIN["U+662F"]) = "sh"
        /\ RefInitial(PINYIN["U+4E2D"]) = "zh"
        /\ RefInitial(PINYIN["U+5403"]) = "ch"
        /\ rq[r].vis_seq = <<"02", "02", "02">>

\* Request r passed the validation of api_generate.
Accepted(r) ==
    rq[r].pc \notin {"idle", "api_validate"} /\ rq[r].exc.cause # "InvalidInput"

MappedOutcome(r) ==
    /\ rq[r].status \in {200, 403, 404, 500}
    /\ rq[r].status = 200 <=> rq[r].exc = NoExc
    /\ rq[r].status # 200 => rq[r].status = StatusOf(rq[r].exc.type)

\* C27 as stated: every accepted request ends, as a success or a mapped HTTP
\* error, and in both outcomes the cleanup of the temporary directory has run
\* before the response.
C27_TerminatesAfterCleanup ==
    /\ \A r \in Req : Accepted(r) ~> Responded(r)
    /\ [](\A r \in Req :
            Accepted(r) /\ Responded(r) =>
                MappedOutcome(r) /\ rq[r].finallyRan)

\* C27 amended: the cleanup has run in both outcomes of every request that
\* created a temporary directory; a request that failed before (viseme folder
\* missing, mkdtemp failing) ends with a mapped error without a cleanup step
\* and without a temporary directory.
C27_TerminatesAfterCleanupIfDirMade ==
    /\ \A r \in Req : Accepted(r) ~> Responded(r)
    /\ [](\A r \in Req :
            Accepted(r) /\ Responded(r) =>
                /\ MappedOutcome(r)
                /\ rq[r].temp_dir # 0 => rq[r].finallyRan
                /\ rq[r].temp_dir = 0 =>
                      /\ ~rq[r].finallyRan
                      /\ rq[r].exc.cause \in
                            {"LipDirMissing", "MkdtempDenied", "NoTempDir"}
                      /\ rq[r].status \in {404, 403}
                      /\ DOMAIN tempDirs = {})
    /\ [][\A r \in Req :
            rq'[r].pc = "responded" /\ rq[r].pc # "responded" /\ rq[r].temp_dir # 0
               => rq[r].finallyRan]_vars

C27_Witness ==
    \E r \in Req :
        /\ Responded(r)
        /\ rq[r].status = 500
        /\ rq[r].exc.cause = "Stage1Failed"
        /\ rq[r].finallyRan
        /\ rq[r].temp_dir # 0

\* An accepted request whose text gave no viseme.
EmptySequence(r) == VisComputed(r) /\ rq[r].vis_seq = <<>>

EmptySequenceFails(r) ==
    /\ rq[r].nProbe = 0
    /\ NoEncoderRun(r)
    /\ ~rq[r].out_written
    /\ rq[r].save_path \notin outputs
    /\ rq[r].pc \notin {"build_concat", "get_audio_duration", "stage1",
                        "stage2", "api_return"}
    /\ Responded(r) => rq[r].status \in {403, 404, 500}
    /\ rq[r].exc.cause = "EmptyVisSeq" =>
          /\ rq[r].audio_path # "None"
          /\ rq[r].audio_path = "tmp" =>
                rq[r].download = "ok" /\ rq[r].is_temporary

\* C28 as stated: a request with an empty viseme sequence ends failed, with no
\* prober or encoder run and no output file, and its temporary directory is
\* removed; the audio was resolved (downloaded, for a URL) before the empty
\* sequence was noticed.
C28_EmptySequence ==
    \A r \in Req :
        EmptySequence(r) =>
            /\ EmptySequenceFails(r)
            /\ Responded(r) => rq[r].temp_dir \notin DOMAIN tempDirs

\* C28 amended: the same, the temporary directory being removed unless its
\* removal raised.
C28_EmptySequenceUnlessRmtreeRaised ==
    \A r \in Req :
        EmptySequence(r) =>
            /\ EmptySequenceFails(r)
            /\ Responded(r) =>
                  rq[r].temp_dir \notin DOMAIN tempDirs \/ rq[r].rmtreeFailed

C28_Witness ==
    \E r \in Req :
        /\ Responded(r)
        /\ rq[r].text = <<"1">>
        /\ rq[r].exc.cause = "EmptyVisSeq"
        /\ rq[r].audio_file = UrlAudio
        /\ rq[r].download = "ok"
        /\ rq[r].status = 500
        /\ ~rq[r].rmtreeFailed
        /\ DOMAIN tempDirs = {}
        /\ outputs = {}

FailedAfterTempDir(r) ==
    /\ (rq[r].temp_dir # 0 /\ rq[r].exc # NoExc) => rq[r].status = 500
    /\ rq[r].exc.cause \in
          {"AudioNotFound", "ImageMissing", "DownloadFailed", "ProbeFailed",
           "Stage1Failed", "Stage2Failed", "EmptyVisSeq"}
          => rq[r].status = 500 /\ rq[r].temp_dir # 0

NothingStarted(r) ==
    /\ rq[r].temp_dir = 0
    /\ rq[r].audio_path = "None" /\ rq[r].download = "None"
    /\ rq[r].nProbe = 0 /\ NoEncoderRun(r)

\* C29 as stated: a 404 answer comes only from the missing viseme folder,
\* before the temporary directory exists and before any download or external
\* process; every failure after the temporary directory was created (missing
\* audio, missing viseme image, download, probe or encoder failure) is
\* answered 500.
C29_NotFoundOnlyLipDir ==
    \A r \in Req :
        Responded(r) =>
            /\ rq[r].status = 404 =>
                  /\ rq[r].exc.cause = "LipDirMissing"
                  /\ ~lip_dir(r).exists
                  /\ NothingStarted(r)
            /\ FailedAfterTempDir(r)

\* C29 amended: a 404 answer comes only from a failure before the temporary
\* directory exists: the missing viseme folder, or mkdtemp raising
\* FileNotFoundError.
C29_NotFoundOnlyBeforeTempDir ==
    \A r \in Req :
        Responded(r) =>
            /\ rq[r].status = 404 =>
                  /\ \/ rq[r].exc.cause = "LipDirMissing" /\ ~lip_dir(r).exists
                     \/ rq[r].exc.cause = "NoTempDir" /\ lip_dir(r).exists
                  /\ NothingStarted(r)
            /\ FailedAfterTempDir(r)

C29_Witness ==
    \E r \in Req :
        /\ Responded(r)
        /\ rq[r].audio_file = MissingAudio
        /\ rq[r].exc.cause = "AudioNotFound"
        /\ rq[r].temp_dir # 0
        /\ rq[r].status = 500

\* The resolver of request r opened a file for the download.
DownloadWritten(r) == rq[r].suffix # <<>>

NoDotInLastComponent(url) ==
    \A i \in DOMAIN url : url[i] = "." => \E j \in (i + 1)..Len(url) : url[j] = "/"

DownloadInsideTempDir(r) ==
    /\ "/" \notin Range(rq[r].suffix)
    /\ rq[r].suffix[1] = "."
    /\ NoDotInLastComponent(rq[r].url) => rq[r].suffix = <<".","m","p","3">>
    /\ rq[r].exc.cause # "OpenFailed"
    /\ rq[r].download \in {"ok", "stream_error"}
    /\ localFiles = {LocalAudio, HttpFileAudio}
    /\ outputs = {}
    /\ DOMAIN tempDirs \subseteq {rq[r].temp_dir}
    /\ rq[r].pc \in {"ultra_start", "ultra_except", "gv_except", "gv_finally"}
          => "audio" \in tempDirs[rq[r].temp_dir]

\* C30 as stated: for every http(s) URL the downloaded file is a direct child
\* of the request's temporary directory (its suffix has no path separator),
\* nothing is written elsewhere, and the copy, complete or partial, is gone
\* with the temporary directory once the request has returned.
C30_DownloadRemoved ==
    \A r \in Req :
        DownloadWritten(r) =>
            /\ DownloadInsideTempDir(r)
            /\ Responded(r) => DOMAIN tempDirs = {}

\* C30 amended: the same, the temporary directory and the copy in it being
\* gone unless the removal of the directory raised.
C30_DownloadRemovedUnlessRmtreeRaised ==
    \A r \in Req :
        DownloadWritten(r) =>
            /\ DownloadInsideTempDir(r)
            /\ Responded(r) => DOMAIN tempDirs = {} \/ rq[r].rmtreeFailed

C30_Witness ==
    \E r \in Req :
        /\ Responded(r)
        /\ rq[r].url = HttpPrefix \o <<".", "a", "?", "/">>
        /\ rq[r].download = "stream_error"
        /\ rq[r].suffix = <<".","m","p","3">>
        /\ ~rq[r].rmtreeFailed
        /\ DOMAIN tempDirs = {}

====
